---- MODULE Spec2Model ----
(***************************************************************************)
(* Model of trackdelta.py: the channel fill chain and the two-driver       *)
(* telemetry comparison of gas(), the segment construction of track() and  *)
(* the lap ranking of qualifying().                                        *)
(*                                                                         *)
(* Each routine is checked under a specification of its own (SpecFill,     *)
(* SpecGas, SpecTrack, SpecQual).  The variables of the other routines     *)
(* stay at their idle values.                                              *)
(*                                                                         *)
(* Numbers.  A channel entry is either missing (NaN) or a rational number  *)
(* num/den kept in lowest terms, so linear interpolation is computed       *)
(* exactly.  Lap times and deltas are whole milliseconds.                  *)
(***************************************************************************)
EXTENDS Integers, Sequences, FiniteSets, TLC

VARIABLES
    \* ---- fill chain of one channel (gas, line 217) ----
    channel,            \* the channel as it was given
    series,             \* the series the chain is working on
    fpc,                \* position in the chain
    \* ---- gas() ----
    heap,               \* object name -> telemetry table
    d1, d2,             \* the objects gas() works on ("" before the call)
    plotted,            \* the traces handed to ax.plot
    gpc,
    \* ---- track() ----
    x, y, nGear,        \* the telemetry columns of the fastest lap
    segments,
    gear_for_segments,
    norm,               \* <<>> while unset, <<vmin, vmax>> once computed
    lc_comp,            \* the LineCollection: its segments and its array
    tpc,
    \* ---- qualifying() ----
    drivers,            \* per driver, what pick_drivers/pick_fastest gives
    drv,                \* loop position in drivers
    list_fastest_laps,
    fastest_laps,
    pole_lap,
    LapTimeDelta,
    texts,              \* the strings handed to ax.text, one per bar
    qpc,
    \* ---- shared ----
    stdout,             \* what was printed
    raised              \* the exception that left the routine ("" if none)

fillVars  == <<channel, series, fpc>>
gasVars   == <<heap, d1, d2, plotted, gpc>>
trackVars == <<x, y, nGear, segments, gear_for_segments, norm, lc_comp, tpc>>
qualVars  == <<drivers, drv, list_fastest_laps, fastest_laps, pole_lap,
               LapTimeDelta, texts, qpc>>
ioVars    == <<stdout, raised>>
vars      == <<fillVars, gasVars, trackVars, qualVars, ioVars>>

----------------------------------------------------------------------------
(* Bounds of the model *)

MaxLen == 5         \* longest channel given to the fill chain
MaxRows == 2        \* most rows of a telemetry table given to gas()
MaxSamples == 3     \* most telemetry samples given to track()
MaxDrivers == 3     \* most drivers given to qualifying()

----------------------------------------------------------------------------
(* Numbers *)

RECURSIVE GCD(_, _)
GCD(a, b) == IF b = 0 THEN a ELSE GCD(b, a % b)

Abs(n) == IF n < 0 THEN -n ELSE n

NaN == [nan |-> TRUE, num |-> 0, den |-> 1]

\* The rational n/d (d > 0) in lowest terms.
Rat(n, d) ==
    LET g == GCD(Abs(n), d)
    IN  [nan |-> FALSE, num |-> n \div g, den |-> d \div g]

Num(n) == Rat(n, 1)

IsNaN(v) == v.nan

Indices(s) == 1..Len(s)

Valid(s) == {i \in Indices(s) : ~IsNaN(s[i])}

SetMin(S) == CHOOSE m \in S : \A n \in S : m <= n
SetMax(S) == CHOOSE m \in S : \A n \in S : m >= n

\* The element of a one-element set.  {f(v) : v \in {e}} evaluates e once,
\* however often f uses its argument.
The(S) == CHOOSE v \in S : TRUE

\* All sequences over S of length 0..n
SeqsUpTo(S, n) == UNION {[1..k -> S] : k \in 0..n}

----------------------------------------------------------------------------
(* The fill chain: series.interpolate().bfill().ffill()                     *)

\* Faulty variant of np_interp: the mean of the two neighbours, whatever
\* the position between them.
np_interp_midpoint(i, s) ==
    LET xp == Valid(s)
    IN  IF i < SetMin(xp) THEN s[SetMin(xp)]
        ELSE IF i > SetMax(xp) THEN s[SetMax(xp)]
        ELSE LET lo == SetMax({j \in xp : j <= i})
                 hi == SetMin({j \in xp : j >= i})
             IN  IF lo = hi THEN s[lo]
                 ELSE Rat(s[lo].num * s[hi].den + s[hi].num * s[lo].den,
                          2 * s[lo].den * s[hi].den)

\* np.interp(i, xp, fp) for one point i, where xp are the valid positions of
\* s and fp its values there: fp[0] left of xp[0], fp[-1] right of xp[-1],
\* otherwise slope * (i - xp[j]) + fp[j] on the interval [xp[j], xp[j+1]].
np_interp(i, s) ==
    LET xp == Valid(s)
    IN  IF i < SetMin(xp) THEN s[SetMin(xp)]
        ELSE IF i > SetMax(xp) THEN s[SetMax(xp)]
        ELSE LET lo == SetMax({j \in xp : j <= i})
                 hi == SetMin({j \in xp : j >= i})
             IN  IF lo = hi THEN s[lo]
                 ELSE \* slope = (fp[hi] - fp[lo]) / (hi - lo)
                      LET sn == s[hi].num * s[lo].den - s[lo].num * s[hi].den
                          sd == s[hi].den * s[lo].den * (hi - lo)
                      IN  Rat(sn * (i - lo) * s[lo].den + s[lo].num * sd,
                              sd * s[lo].den)

\* Series.interpolate(): method='linear', limit_direction='forward', no
\* limit.  Nothing to do when no entry or every entry is valid; otherwise
\* every missing entry takes np.interp over the positions, and the entries
\* before the first valid one are set back to NaN.
interpolate(s) ==
    IF Valid(s) = {} \/ Valid(s) = Indices(s) THEN s
    ELSE LET first_valid == SetMin(Valid(s))
             start_nans  == 1..(first_valid - 1)
         IN  [i \in Indices(s) |->
                 IF i \in start_nans THEN NaN
                 ELSE IF IsNaN(s[i]) THEN np_interp(i, s)
                 ELSE s[i]]

\* Faulty variant of bfill: the call left out of the chain.
bfill_skipped(s) == s

\* Series.bfill(): a missing entry takes the next valid entry after it.
bfill(s) ==
    [i \in Indices(s) |->
        IF IsNaN(s[i]) /\ \E j \in Valid(s) : j > i
        THEN s[SetMin({j \in Valid(s) : j > i})]
        ELSE s[i]]

\* Series.ffill(): a missing entry takes the last valid entry before it.
ffill(s) ==
    [i \in Indices(s) |->
        IF IsNaN(s[i]) /\ \E j \in Valid(s) : j < i
        THEN s[SetMax({j \in Valid(s) : j < i})]
        ELSE s[i]]

\* d[col].interpolate().bfill().ffill()
fill_chain(s) ==
    The({ffill(b) : b \in {bfill(a) : a \in {interpolate(s)}}})

----------------------------------------------------------------------------
(* Idle values of the variables a specification does not exercise *)

FillIdle  == channel = <<>> /\ series = <<>> /\ fpc = "idle"
GasIdle   == /\ heap = <<>> /\ d1 = "" /\ d2 = "" /\ plotted = {}
             /\ gpc = "idle"
TrackIdle == /\ x = <<>> /\ y = <<>> /\ nGear = <<>> /\ segments = <<>>
             /\ gear_for_segments = <<>> /\ norm = <<>>
             /\ lc_comp = [segments |-> <<>>, array |-> <<>>]
             /\ tpc = "idle"
QualIdle  == /\ drivers = <<>> /\ drv = 1 /\ list_fastest_laps = <<>>
             /\ fastest_laps = <<>> /\ pole_lap = <<>> /\ LapTimeDelta = <<>>
             /\ texts = <<>> /\ qpc = "idle"
IoInit    == stdout = <<>> /\ raised = ""

----------------------------------------------------------------------------
(* SpecFill: the fill chain, one step per method call *)

KnownValues == {1, 4, 5, 6}

Entries == {NaN} \cup {Num(v) : v \in KnownValues}

InitFill ==
    /\ channel \in SeqsUpTo(Entries, MaxLen)
    /\ series = channel
    /\ fpc = "start"
    /\ GasIdle /\ TrackIdle /\ QualIdle /\ IoInit

Interpolate ==
    /\ fpc = "start"
    /\ series' = interpolate(series)
    /\ fpc' = "interpolated"
    /\ UNCHANGED <<channel, gasVars, trackVars, qualVars, ioVars>>

Bfill ==
    /\ fpc = "interpolated"
    /\ series' = bfill(series)
    /\ fpc' = "bfilled"
    /\ UNCHANGED <<channel, gasVars, trackVars, qualVars, ioVars>>

Ffill ==
    /\ fpc = "bfilled"
    /\ series' = ffill(series)
    /\ fpc' = "done"
    /\ UNCHANGED <<channel, gasVars, trackVars, qualVars, ioVars>>

NextFill == Interpolate \/ Bfill \/ Ffill

SpecFill == InitFill /\ [][NextFill]_vars

----------------------------------------------------------------------------
(* SpecGas: gas(telemetry_driver1, telemetry_driver2, driver1, driver2)     *)

data_fields == <<"RPM", "Speed", "Throttle", "Brake", "nGear", "DRS">>

\* The data fields a telemetry table of the model may hold, next to its
\* Distance column.
TableFields == {"Speed", "nGear"}

\* The entries of a driver's data columns: missing, or the driver's own
\* reading, which differs between the two drivers.
GasEntries(driver) == {NaN, Num(driver)}

\* A telemetry table: column name -> series, all columns of one length.
TablesOf(driver, n) ==
    UNION { { ("Distance" :> [i \in 1..n |-> Num(10 * i)]) @@ cols :
                cols \in [present -> [1..n -> GasEntries(driver)]] } :
            present \in SUBSET TableFields }

Tables(driver) == UNION {TablesOf(driver, n) : n \in 1..MaxRows}

\* Faulty variant of copy: the same object under a second name.
copy_alias(obj, new) == obj

\* DataFrame.copy(): the result is the new object, holding obj's content.
copy(obj, new) == new

\* d[col] = d[col].interpolate().bfill().ffill() when col is in d, for the
\* object r that d names.
fill_column(h, r, col) ==
    IF col \in DOMAIN h[r]
    THEN [h EXCEPT ![r][col] = fill_chain(h[r][col])]
    ELSE h

\* The loop of lines 215-219 from column data_fields[k] on: d1 (object
\* r1), then d2 (object r2), then the next column.
RECURSIVE fill_loop(_, _, _, _)
fill_loop(h, r1, r2, k) ==
    IF k > Len(data_fields) THEN h
    ELSE The({ fill_loop(h2, r1, r2, k + 1) :
                 h2 \in { fill_column(h1, r2, data_fields[k]) :
                            h1 \in {fill_column(h, r1, data_fields[k])} } })

\* The ax_i.plot calls of lines 221-230: one trace per driver and per data
\* field the driver's table holds.
plot_calls(h, r1, r2) ==
    { [label |-> "driver1", field |-> data_fields[k],
       xs |-> h[r1]["Distance"], ys |-> h[r1][data_fields[k]]] :
         k \in {j \in 1..Len(data_fields) : data_fields[j] \in DOMAIN h[r1]} }
    \cup
    { [label |-> "driver2", field |-> data_fields[k],
       xs |-> h[r2]["Distance"], ys |-> h[r2][data_fields[k]]] :
         k \in {j \in 1..Len(data_fields) : data_fields[j] \in DOMAIN h[r2]} }

InitGas ==
    /\ \E t1 \in Tables(1), t2 \in Tables(2) :
          heap = ("telemetry_driver1" :> t1) @@ ("telemetry_driver2" :> t2)
    /\ d1 = "" /\ d2 = "" /\ plotted = {}
    /\ gpc = "start"
    /\ FillIdle /\ TrackIdle /\ QualIdle /\ IoInit

\* The whole of gas(): copy, fill, plot.  It prints nothing, and none of
\* its statements raises on these tables.
gas ==
    /\ gpc = "start"
    /\ LET r1 == copy("telemetry_driver1", "d1")
           r2 == copy("telemetry_driver2", "d2")
           h0 == (r2 :> heap["telemetry_driver2"])
                    @@ ((r1 :> heap["telemetry_driver1"]) @@ heap)
       IN  \E h \in {fill_loop(h0, r1, r2, 1)} :
               /\ d1' = r1
               /\ d2' = r2
               /\ heap' = h
               /\ plotted' = plot_calls(h, r1, r2)
    /\ gpc' = "done"
    /\ UNCHANGED <<fillVars, trackVars, qualVars, ioVars>>

NextGas == gas

SpecGas == InitGas /\ [][NextGas]_vars

----------------------------------------------------------------------------
(* SpecTrack: track(laps), from the telemetry of the fastest lap on         *)

Coords == {0, 1}
Gears  == {1, 2}

Max(a, b) == IF a >= b THEN a ELSE b

\* points = np.array([x, y]).T.reshape(-1, 1, 2)
\* segments = np.concatenate([points[:-1], points[1:]], axis=1)
build_segments(xs, ys) ==
    [i \in 1..Max(Len(xs) - 1, 0) |->
        << <<xs[i], ys[i]>>, <<xs[i + 1], ys[i + 1]>> >>]

\* gear[:-1] if len(gear) >= 2 else gear
gear_slice(gear) ==
    IF Len(gear) >= 2 THEN SubSeq(gear, 1, Len(gear) - 1) ELSE gear

Values(s) == {s[i] : i \in Indices(s)}

InitTrack ==
    /\ \E n \in 0..MaxSamples :
          /\ x \in [1..n -> Coords]
          /\ y \in [1..n -> Coords]
          /\ nGear \in [1..n -> Gears]
    /\ segments = <<>> /\ gear_for_segments = <<>> /\ norm = <<>>
    /\ lc_comp = [segments |-> <<>>, array |-> <<>>]
    /\ tpc = "start"
    /\ FillIdle /\ GasIdle /\ QualIdle /\ IoInit

\* Lines 121-131.
BuildSegments ==
    /\ tpc = "start"
    /\ segments' = build_segments(x, y)
    /\ gear_for_segments' = gear_slice(nGear)
    /\ tpc' = "built"
    /\ UNCHANGED <<x, y, nGear, norm, lc_comp>>
    /\ UNCHANGED <<fillVars, gasVars, qualVars, ioVars>>

\* Line 135.  np.nanmin and np.nanmax raise ValueError on a zero-size array;
\* the exception leaves track().
Normalize ==
    /\ tpc = "built"
    /\ IF gear_for_segments = <<>>
       THEN /\ raised' = "ValueError"
            /\ tpc' = "raised"
            /\ UNCHANGED norm
       ELSE /\ norm' = << SetMin(Values(gear_for_segments)),
                          SetMax(Values(gear_for_segments)) >>
            /\ tpc' = "normed"
            /\ UNCHANGED raised
    /\ UNCHANGED <<x, y, nGear, segments, gear_for_segments, lc_comp, stdout>>
    /\ UNCHANGED <<fillVars, gasVars, qualVars>>

\* Lines 137-146: the LineCollection over segments, then set_array.
MakeCollection ==
    /\ tpc = "normed"
    /\ lc_comp' = [segments |-> segments, array |-> gear_for_segments]
    /\ tpc' = "done"
    /\ UNCHANGED <<x, y, nGear, segments, gear_for_segments, norm>>
    /\ UNCHANGED <<fillVars, gasVars, qualVars, ioVars>>

NextTrack == BuildSegments \/ Normalize \/ MakeCollection

SpecTrack == InitTrack /\ [][NextTrack]_vars

----------------------------------------------------------------------------
(* SpecQual: qualifying(session, laps)                                      *)

\* Lap times, in milliseconds.
LapTimes == {91001, 92000, 92001, 92345}

\* What the loop of lines 338-348 meets for a driver: no laps, pick_fastest
\* raising, pick_fastest giving None, giving an empty lap, or giving a lap.
Picks == {"no_laps", "raises", "None", "empty", "lap"}

DriverOutcomes(i) ==
    { [Driver |-> i, pick |-> k, LapTime |-> 0] : k \in Picks \ {"lap"} }
    \cup { [Driver |-> i, pick |-> "lap", LapTime |-> t] : t \in LapTimes }

\* Lines 340-347: the driver's fastest lap is kept unless one of the four
\* checks skips the driver.
keep_lap(d) ==
    /\ d.pick # "no_laps"       \* if drv_laps.empty: continue
    /\ d.pick # "raises"        \* except Exception: continue
    /\ d.pick # "None"          \* if drvs_fastest_lap is None ...
    /\ d.pick # "empty"         \*    ... or drvs_fastest_lap.empty: continue

\* Faulty variant of no_fastest_laps: the check left out.
no_fastest_laps_never(list) == FALSE

\* Line 350: if not list_fastest_laps
no_fastest_laps(list) == list = <<>>

NoDataMessage ==
    "[qualifying] No valid fastest laps found for any driver. Not plotting."

RowOrders(n) ==
    {p \in [1..n -> 1..n] : \A i, j \in 1..n : p[i] = p[j] => i = j}

\* Faulty variant of sort_values: descending LapTime.
sort_values_descending(list) ==
    { [i \in Indices(list) |-> list[p[i]]] :
        p \in { q \in RowOrders(Len(list)) :
                  \A i, j \in Indices(list) :
                     i < j => list[q[i]].LapTime >= list[q[j]].LapTime } }

\* Laps(list).sort_values(by='LapTime').reset_index(drop=True): the rows in
\* ascending LapTime.  The default kind is 'quicksort', which fixes no order
\* among rows of equal LapTime: every ascending arrangement is an outcome.
sort_values(list) ==
    { [i \in Indices(list) |-> list[p[i]]] :
        p \in { q \in RowOrders(Len(list)) :
                  \A i, j \in Indices(list) :
                     i < j => list[q[i]].LapTime <= list[q[j]].LapTime } }

\* Laps.pick_fastest(): the row at idxmin of LapTime, the first row of the
\* least LapTime.
pick_fastest(tbl) ==
    tbl[SetMin({i \in Indices(tbl) :
                   \A j \in Indices(tbl) : tbl[i].LapTime <= tbl[j].LapTime})]

DigitChars == <<"0", "1", "2", "3", "4", "5", "6", "7", "8", "9">>

Digit(n) == DigitChars[n + 1]

\* The decimal digits of n >= 0.
RECURSIVE Decimal(_)
Decimal(n) ==
    IF n < 10 THEN <<Digit(n)>>
    ELSE Append(Decimal(n \div 10), Digit(n % 10))

\* f"{v:.3f}" for v = ms / 1000 >= 0
format_3f(ms) ==
    Decimal(ms \div 1000)
       \o <<".", Digit((ms \div 100) % 10), Digit((ms \div 10) % 10), Digit(ms % 10)>>

\* f"{v * 1000:.0f}" for v = ms / 1000
format_0f(ms) ==
    IF ms < 0 THEN <<"-">> \o Decimal(-ms) ELSE Decimal(ms)

\* Faulty variant of delta_text: the seconds form only above 1 s.
delta_text_strict(ms) ==
    IF ms > 1000
    THEN <<"+">> \o format_3f(ms) \o <<"s">>
    ELSE <<"+">> \o format_0f(ms) \o <<"m", "s">>

\* Lines 390-393, for val_seconds = ms / 1000.
delta_text(ms) ==
    IF ms >= 1000
    THEN <<"+">> \o format_3f(ms) \o <<"s">>
    ELSE <<"+">> \o format_0f(ms) \o <<"m", "s">>

InitQual ==
    /\ \E n \in 0..MaxDrivers :
          drivers \in {ds \in [1..n -> UNION {DriverOutcomes(i) : i \in 1..n}] :
                          \A i \in 1..n : ds[i].Driver = i}
    /\ drv = 1
    /\ list_fastest_laps = <<>> /\ fastest_laps = <<>> /\ pole_lap = <<>>
    /\ LapTimeDelta = <<>> /\ texts = <<>>
    /\ qpc = "loop"
    /\ FillIdle /\ GasIdle /\ TrackIdle /\ IoInit

\* One pass of the loop of lines 338-348.
CollectFastest ==
    /\ qpc = "loop"
    /\ drv <= Len(drivers)
    /\ list_fastest_laps' =
          IF keep_lap(drivers[drv])
          THEN Append(list_fastest_laps, drivers[drv])
          ELSE list_fastest_laps
    /\ drv' = drv + 1
    /\ UNCHANGED <<drivers, fastest_laps, pole_lap, LapTimeDelta, texts, qpc>>
    /\ UNCHANGED <<fillVars, gasVars, trackVars, ioVars>>

\* Lines 350-352: print and return when no lap was kept.
CheckNoData ==
    /\ qpc = "loop"
    /\ drv > Len(drivers)
    /\ IF no_fastest_laps(list_fastest_laps)
       THEN /\ stdout' = Append(stdout, NoDataMessage)
            /\ qpc' = "done"
       ELSE /\ qpc' = "sort"
            /\ UNCHANGED stdout
    /\ UNCHANGED <<drivers, drv, list_fastest_laps, fastest_laps, pole_lap,
                   LapTimeDelta, texts, raised>>
    /\ UNCHANGED <<fillVars, gasVars, trackVars>>

\* Line 354.
Rank ==
    /\ qpc = "sort"
    /\ fastest_laps' \in sort_values(list_fastest_laps)
    /\ qpc' = "ranked"
    /\ UNCHANGED <<drivers, drv, list_fastest_laps, pole_lap, LapTimeDelta, texts>>
    /\ UNCHANGED <<fillVars, gasVars, trackVars, ioVars>>

\* Lines 355-356.  On a table without rows pick_fastest gives no lap and
\* pole_lap['LapTime'] raises.
Delta ==
    /\ qpc = "ranked"
    /\ IF fastest_laps = <<>>
       THEN /\ raised' = "TypeError"
            /\ qpc' = "raised"
            /\ UNCHANGED <<pole_lap, LapTimeDelta>>
       ELSE /\ \E pole \in {pick_fastest(fastest_laps)} :
                  /\ pole_lap' = pole
                  /\ LapTimeDelta' =
                        [i \in Indices(fastest_laps) |->
                            fastest_laps[i].LapTime - pole.LapTime]
            /\ qpc' = "delta"
            /\ UNCHANGED raised
    /\ UNCHANGED <<drivers, drv, list_fastest_laps, fastest_laps, texts, stdout>>
    /\ UNCHANGED <<fillVars, gasVars, trackVars>>

\* Lines 365-395: one bar per row, its width the row's delta, and one text
\* per bar.
Annotate ==
    /\ qpc = "delta"
    /\ texts' = [i \in Indices(fastest_laps) |-> delta_text(LapTimeDelta[i])]
    /\ qpc' = "done"
    /\ UNCHANGED <<drivers, drv, list_fastest_laps, fastest_laps, pole_lap,
                   LapTimeDelta>>
    /\ UNCHANGED <<fillVars, gasVars, trackVars, ioVars>>

NextQual == CollectFastest \/ CheckNoData \/ Rank \/ Delta \/ Annotate

SpecQual == InitQual /\ [][NextQual]_vars

----------------------------------------------------------------------------
(* Properties of the fill chain *)

Leading(s)  == {i \in Indices(s) : IsNaN(s[i]) /\ \A j \in Valid(s) : i < j}
Trailing(s) == {i \in Indices(s) : IsNaN(s[i]) /\ \A j \in Valid(s) : i > j}
Interior(s) == {i \in Indices(s) : IsNaN(s[i])} \ (Leading(s) \cup Trailing(s))

\* C1 (filler coverage): once the chain has run on a channel with at least
\* one valid entry, the result has the length of the channel and no entry
\* of it is missing, wherever the missing entries of the channel sit.
FillerCoverage ==
    (fpc = "done" /\ Valid(channel) # {}) =>
        /\ Len(series) = Len(channel)
        /\ \A i \in Indices(series) : ~IsNaN(series[i])

\* A filled channel that had leading, interior and trailing gaps.
FillerCoverageWitness ==
    /\ fpc = "done"
    /\ Leading(channel) # {} /\ Interior(channel) # {}
    /\ Trailing(channel) # {}
    /\ Valid(series) = Indices(channel)

\* v is the point at position i of the straight line through
\* (p, channel[p]) and (n, channel[n]), as a weighted mean of the two.
OnLine(v, i, p, n) ==
    /\ ~IsNaN(v) /\ v.den > 0
    /\ GCD(Abs(v.num), v.den) = 1
    /\ v.num * (n - p) * channel[p].den * channel[n].den
         = v.den * ( channel[p].num * channel[n].den * (n - i)
                   + channel[n].num * channel[p].den * (i - p) )

\* C2 (filler values): on a channel with at least one valid entry the result
\* keeps every valid entry, gives an interior gap the linear interpolation
\* by position between its nearest valid neighbours, a leading gap the first
\* valid value and a trailing gap the last valid value; [1,NaN,NaN,4] gives
\* [1,2,3,4] and [NaN,NaN,5,6] gives [5,5,5,6].
FillerValues ==
    (fpc = "done" /\ Valid(channel) # {}) =>
        /\ Len(series) = Len(channel)
        /\ \A i \in Valid(channel) : series[i] = channel[i]
        /\ \A i \in Leading(channel) : series[i] = channel[SetMin(Valid(channel))]
        /\ \A i \in Trailing(channel) : series[i] = channel[SetMax(Valid(channel))]
        /\ \A i \in Interior(channel) :
              OnLine(series[i], i, SetMax({j \in Valid(channel) : j < i}),
                                   SetMin({j \in Valid(channel) : j > i}))
        /\ Valid(channel) = Indices(channel) => series = channel
        /\ channel = <<Num(1), NaN, NaN, Num(4)>>
              => series = <<Num(1), Num(2), Num(3), Num(4)>>
        /\ channel = <<NaN, NaN, Num(5), Num(6)>>
              => series = <<Num(5), Num(5), Num(5), Num(6)>>

\* A filled channel whose interior gap takes a value between two integers.
FillerValuesWitness ==
    /\ fpc = "done"
    /\ channel = <<NaN, Num(1), NaN, Num(4), NaN>>
    /\ series = <<Num(1), Num(1), Rat(5, 2), Num(4), Num(4)>>

----------------------------------------------------------------------------
(* Properties of gas() *)

InDataFields(col) == \E k \in 1..Len(data_fields) : data_fields[k] = col

\* The filled series as a function of the series alone: valid entries kept,
\* gaps on the line between their valid neighbours, edge gaps at the
\* nearest valid value, an all-missing series left as it is.
OwnFill(s) ==
    [i \in Indices(s) |->
        IF ~IsNaN(s[i]) \/ Valid(s) = {} THEN s[i]
        ELSE IF i < SetMin(Valid(s)) THEN s[SetMin(Valid(s))]
        ELSE IF i > SetMax(Valid(s)) THEN s[SetMax(Valid(s))]
        ELSE LET p == SetMax({j \in Valid(s) : j < i})
                 n == SetMin({j \in Valid(s) : j > i})
             IN  Rat(s[p].num * s[n].den * (n - i) + s[n].num * s[p].den * (i - p),
                     (n - p) * s[p].den * s[n].den)]

OwnClean(t) ==
    [col \in DOMAIN t |-> IF InDataFields(col) THEN OwnFill(t[col]) ELSE t[col]]

\* C10 (aligner isolation): the call of gas() leaves both telemetry tables
\* it was given as they were, works on objects other than those two, and
\* leaves in each driver's working table exactly the columns of that
\* driver's own table, each data field filled from that table alone; a data
\* field one table lacks is skipped there, without an exception.
AlignerIsolation ==
    [][ (gpc = "start" /\ gpc' = "done") =>
          /\ heap'["telemetry_driver1"] = heap["telemetry_driver1"]
          /\ heap'["telemetry_driver2"] = heap["telemetry_driver2"]
          /\ {d1', d2'} \cap {"telemetry_driver1", "telemetry_driver2"} = {}
          /\ d1' # d2'
          /\ heap'[d1'] = OwnClean(heap["telemetry_driver1"])
          /\ heap'[d2'] = OwnClean(heap["telemetry_driver2"])
          /\ raised' = "" ]_vars

\* gas() has run on tables where driver 1 lacks Speed, driver 2 has a Speed
\* column with a gap that was filled, and driver 1 has an nGear column with
\* a gap that is still there in the table given.
AlignerIsolationWitness ==
    /\ gpc = "done"
    /\ "Speed" \notin DOMAIN heap["telemetry_driver1"]
    /\ "Speed" \in DOMAIN heap["telemetry_driver2"]
    /\ heap["telemetry_driver2"]["Speed"] = <<NaN, Num(2)>>
    /\ heap[d2]["Speed"] = <<Num(2), Num(2)>>
    /\ "nGear" \in DOMAIN heap["telemetry_driver1"]
    /\ heap["telemetry_driver1"]["nGear"] = <<Num(1), NaN>>
    /\ heap[d1]["nGear"] = <<Num(1), Num(1)>>

\* The working table of a driver after gas() has run.
Cleaned(label) == IF label = "driver1" THEN heap[d1] ELSE heap[d2]

\* An explicit AllMissingChannel condition for the driver's field: printed,
\* or raised.
AllMissingReported(label, field) ==
    \/ raised = "AllMissingChannel"
    \/ \E m \in 1..Len(stdout) :
          stdout[m] = <<"AllMissingChannel", label, field>>

\* C3 (all-missing channel is reported): after gas(), a data field that is
\* present in a driver's table and entirely missing after the fill has been
\* reported as AllMissingChannel and no trace of it was handed to the plot.
AllMissingChannelReported ==
    gpc = "done" =>
        \A label \in {"driver1", "driver2"} :
            \A field \in DOMAIN Cleaned(label) :
                (InDataFields(field) /\ Valid(Cleaned(label)[field]) = {}) =>
                    /\ AllMissingReported(label, field)
                    /\ ~\E trace \in plotted :
                          trace.label = label /\ trace.field = field

----------------------------------------------------------------------------
(* Properties of track() *)

\* C4 (segment/tag alignment): when track() has made its LineCollection
\* from N positions, it holds max(N-1, 0) segments, segment i joins
\* position i to position i+1, and the array set on it has the length of
\* the segment list, with the value of segment i equal to nGear[i].
SegmentTagAlignment ==
    tpc = "done" =>
        /\ Len(lc_comp.segments) = Max(Len(x) - 1, 0)
        /\ \A i \in Indices(lc_comp.segments) :
              lc_comp.segments[i] = << <<x[i], y[i]>>, <<x[i + 1], y[i + 1]>> >>
        /\ Len(lc_comp.array) = Len(lc_comp.segments)
        /\ \A i \in Indices(lc_comp.segments) : lc_comp.array[i] = nGear[i]

\* C5 (insufficient samples do not fail): with fewer than 2 samples no
\* step of track() raises, and track() completes with an empty segment list
\* and no normalization range.
InsufficientSamplesNoFailure ==
    Len(x) < 2 =>
        /\ raised = "" /\ tpc # "raised"
        /\ tpc = "done" => (lc_comp.segments = <<>> /\ norm = <<>>)

----------------------------------------------------------------------------
(* Properties of qualifying() *)

Ascending(tbl) ==
    \A i, j \in Indices(tbl) : i < j => tbl[i].LapTime <= tbl[j].LapTime

\* C6 (delta table ranking): once the deltas are computed for a non-empty
\* list of fastest laps, the table holds the laps of the list in ascending
\* lap time, the pole lap is its first row, the first row's delta is 0, and
\* every row's delta is its lap time minus the pole's and is not negative.
DeltaTableRanking ==
    (qpc \in {"delta", "done"} /\ list_fastest_laps # <<>>) =>
        /\ Len(fastest_laps) = Len(list_fastest_laps)
        /\ Values(fastest_laps) = Values(list_fastest_laps)
        /\ Ascending(fastest_laps)
        /\ pole_lap = fastest_laps[1]
        /\ Len(LapTimeDelta) = Len(fastest_laps)
        /\ LapTimeDelta[1] = 0
        /\ \A i \in Indices(fastest_laps) :
              /\ LapTimeDelta[i] = fastest_laps[i].LapTime - fastest_laps[1].LapTime
              /\ LapTimeDelta[i] >= 0

\* Three laps ranked into an order other than the one they came in, the
\* pole not the first driver, the last row behind the pole.
DeltaTableRankingWitness ==
    /\ qpc = "delta"
    /\ Len(fastest_laps) = 3
    /\ fastest_laps # list_fastest_laps
    /\ pole_lap.Driver # 1
    /\ LapTimeDelta[1] = 0
    /\ LapTimeDelta[3] > 0

IsDigit(c) == \E n \in 0..9 : DigitChars[n + 1] = c

DigitValue(c) == CHOOSE n \in 0..9 : DigitChars[n + 1] = c

AllDigits(t) == \A i \in Indices(t) : IsDigit(t[i])

\* A decimal numeral without a sign and without needless leading zeros.
IsNumeral(t) ==
    /\ Len(t) >= 1
    /\ AllDigits(t)
    /\ Len(t) > 1 => t[1] # "0"

RECURSIVE ParseNat(_)
ParseNat(t) ==
    IF t = <<>> THEN 0
    ELSE 10 * ParseNat(SubSeq(t, 1, Len(t) - 1)) + DigitValue(t[Len(t)])

\* t reads "+<seconds>.<3 digits>s" and stands for ms milliseconds.
IsSecondsText(t, ms) ==
    /\ Len(t) >= 7
    /\ t[1] = "+"
    /\ t[Len(t)] = "s"
    /\ t[Len(t) - 4] = "."
    /\ IsNumeral(SubSeq(t, 2, Len(t) - 5))
    /\ AllDigits(SubSeq(t, Len(t) - 3, Len(t) - 1))
    /\ 1000 * ParseNat(SubSeq(t, 2, Len(t) - 5))
          + ParseNat(SubSeq(t, Len(t) - 3, Len(t) - 1)) = ms

\* t reads "+<milliseconds>ms", without decimals, and stands for ms.
IsMillisText(t, ms) ==
    /\ Len(t) >= 4
    /\ t[1] = "+"
    /\ t[Len(t) - 1] = "m"
    /\ t[Len(t)] = "s"
    /\ IsNumeral(SubSeq(t, 2, Len(t) - 2))
    /\ ParseNat(SubSeq(t, 2, Len(t) - 2)) = ms

InputPlace(row) ==
    CHOOSE k \in Indices(list_fastest_laps) : list_fastest_laps[k] = row

IsLap(d) == d.pick = "lap"

\* C9 (no valid laps): the list of fastest laps holds, in order, exactly
\* the drivers met so far whose pick gave a lap; when the loop ends with an
\* empty list, qualifying() has printed its 'no data' line and returned
\* with no table, pole, delta or text made; and no exception is raised.
NoValidLaps ==
    /\ list_fastest_laps = SelectSeq(SubSeq(drivers, 1, drv - 1), IsLap)
    /\ raised = ""
    /\ qpc # "loop" => drv = Len(drivers) + 1
    /\ (qpc # "loop" /\ SelectSeq(drivers, IsLap) = <<>>) =>
          /\ qpc = "done"
          /\ stdout = <<NoDataMessage>>
          /\ fastest_laps = <<>> /\ pole_lap = <<>>
          /\ LapTimeDelta = <<>> /\ texts = <<>>
    /\ (qpc # "loop" /\ SelectSeq(drivers, IsLap) # <<>>) => stdout = <<>>

\* qualifying() has returned on three drivers, none with a usable lap.
NoValidLapsWitness ==
    /\ qpc = "done"
    /\ Len(drivers) = 3
    /\ {drivers[i].pick : i \in 1..3} = {"no_laps", "raises", "empty"}
    /\ list_fastest_laps = <<>>
    /\ stdout = <<NoDataMessage>>

====
